---- MODULE Spec2Model ----
(***************************************************************************)
(* The weather proxy of gateway/python-service (routers/weather.py): the   *)
(* process-wide grid point cache, and the request flow of get_forecast,    *)
(* which suspends at each outbound HTTP call.  Every inbound request is a  *)
(* flow of its own; flows interleave at their suspension points.           *)
(*                                                                         *)
(* Coordinates are integers in millionths of a degree.  Times are seconds. *)
(***************************************************************************)
EXTENDS Integers, Sequences, FiniteSets, TLC

(***************************************************************************)
(* Bounds of the model.                                                    *)
(***************************************************************************)
\* Inbound requests over the whole run.
MaxRequests == 2
\* Clock steps over the whole run (see Tick).
MaxTicks == 2
\* Distinct points payloads the upstream may serve for one coordinate.
MaxVersion == 2

(***************************************************************************)
(* Program constants.                                                      *)
(***************************************************************************)
\* One degree, in the model's coordinate unit.
Micro == 1000 * 1000
GRID_CACHE_TTL == 24 * 60 * 60
LAT_MIN == (-90) * Micro
LAT_MAX == 90 * Micro
LON_MIN == (-180) * Micro
LON_MAX == 180 * Micro
\* The status of FastAPI's answer to a request whose Query constraints fail.
VALIDATION_STATUS == 422

Abs(x) == IF x < 0 THEN -x ELSE x

(***************************************************************************)
(* JSON values of the upstream payloads.  A missing key is JAbsent.        *)
(***************************************************************************)
None == [t |-> "None"]
JAbsent == [t |-> "absent"]
JNum(n) == [t |-> "num", v |-> n]
JStr(s) == [t |-> "str", v |-> s]
\* An object holding (at most) the key "value".
JEmptyObj == [t |-> "obj", value |-> JAbsent]
JValueObj(v) == [t |-> "obj", value |-> v]

(***************************************************************************)
(* Inputs.  The first two coordinates format to the same cache key, the    *)
(* third truncates like them but rounds to another key, the last two fail  *)
(* the range validation by one millionth of a degree.  No coordinate lies  *)
(* on a rounding tie of the fourth decimal.                                *)
(***************************************************************************)
Coords ==
    { <<40712900, -74005900>>,
      <<40712904, -74005901>>,
      <<40712960, -74005900>>,
      <<LAT_MAX + 1, -74005900>>,
      <<40712900, LON_MIN - 1>> }

\* f"{x:.4f}": sign and magnitude rounded to four decimals.
\* A key that cuts the digits after the fourth decimal instead of rounding.
Fmt4_Truncate(x) == [neg |-> x < 0, mag |-> Abs(x) \div 100]

Fmt4(x) == [neg |-> x < 0, mag |-> (Abs(x) + 50) \div 100]

\* cache_key = f"{lat:.4f},{lon:.4f}"
cache_key(lat, lon) == <<Fmt4(lat), Fmt4(lon)>>

\* A validation that forgets the longitude.
Valid_LatOnly(lat, lon) == lat >= LAT_MIN /\ lat <= LAT_MAX

\* A validation that forgets the latitude.
Valid_LonOnly(lat, lon) == lon >= LON_MIN /\ lon <= LON_MAX

\* Query(..., ge=-90, le=90), Query(..., ge=-180, le=180)
Valid(lat, lon) == lat >= LAT_MIN /\ lat <= LAT_MAX /\ lon >= LON_MIN /\ lon <= LON_MAX

(***************************************************************************)
(* Exceptions and their translation by get_forecast's except clauses.      *)
(***************************************************************************)
HTTPStatusError(resp) == [exc |-> "HTTPStatusError", status_code |-> resp.status_code, text |-> resp.text]
RequestError == [exc |-> "RequestError", status_code |-> 0, text |-> "connect"]
KeyError == [exc |-> "KeyError", status_code |-> 0, text |-> "key"]
AttributeError == [exc |-> "AttributeError", status_code |-> 0, text |-> "attr"]

\* Every upstream HTTP error reported as 502 Bad Gateway.
HTTPException_BadGateway(e) ==
    IF e.exc = "HTTPStatusError"
    THEN [status_code |-> 502, detail |-> <<"Weather API error: ", e.text>>]
    ELSE IF e.exc = "RequestError"
    THEN [status_code |-> 503, detail |-> <<"Weather API unavailable: ", e.text>>]
    ELSE [status_code |-> 500, detail |-> <<"Failed to fetch weather: ", e.text>>]

\* The clause for RequestError placed after the one for Exception.
HTTPException_GenericFirst(e) ==
    IF e.exc = "HTTPStatusError"
    THEN [status_code |-> e.status_code, detail |-> <<"Weather API error: ", e.text>>]
    ELSE [status_code |-> 500, detail |-> <<"Failed to fetch weather: ", e.text>>]

\* Every exception but HTTPStatusError reported as 503.
HTTPException_AllUnavailable(e) ==
    IF e.exc = "HTTPStatusError"
    THEN [status_code |-> e.status_code, detail |-> <<"Weather API error: ", e.text>>]
    ELSE [status_code |-> 503, detail |-> <<"Weather API unavailable: ", e.text>>]

HTTPException(e) ==
    IF e.exc = "HTTPStatusError"
    THEN [status_code |-> e.status_code, detail |-> <<"Weather API error: ", e.text>>]
    ELSE IF e.exc = "RequestError"
    THEN [status_code |-> 503, detail |-> <<"Weather API unavailable: ", e.text>>]
    ELSE [status_code |-> 500, detail |-> <<"Failed to fetch weather: ", e.text>>]

(***************************************************************************)
(* Upstream responses.                                                     *)
(***************************************************************************)
\* Non-2xx responses: raise_for_status() raises HTTPStatusError for them.
ErrorResponses ==
    { [kind |-> "http", status_code |-> 404, text |-> "not found"],
      [kind |-> "http", status_code |-> 503, text |-> "maintenance"] }
\* client.get() raises a RequestError: timeout, DNS failure, connection refused.
NetworkFailure == [kind |-> "network"]

\* The "properties" of a points payload for a coordinate; v tells apart the
\* payloads the upstream may serve for it.
PointsProps(lat, lon, v) ==
    [ gridId |-> JStr(<<"gridId", lat, lon, v>>),
      gridX |-> JStr(<<"gridX", lat, lon, v>>),
      gridY |-> JStr(<<"gridY", lat, lon, v>>),
      forecastHourly |-> JStr(<<"forecastHourly", lat, lon, v>>),
      observationStations |-> JStr(<<"observationStations", lat, lon, v>>),
      relativeLocation |->
          [ t |-> "obj",
            city |-> JStr(<<"city", lat, lon, v>>),
            state |-> JStr(<<"state", lat, lon, v>>) ] ]

\* What GET {base}/points/{lat},{lon} may answer: a complete payload, a 2xx
\* payload without "relativeLocation", a non-2xx response, a network failure.
PointsResponses(lat, lon) ==
    { [kind |-> "ok", properties |-> PointsProps(lat, lon, v)] : v \in 1..MaxVersion }
    \cup { [kind |-> "ok",
            properties |-> [PointsProps(lat, lon, 1) EXCEPT !.relativeLocation = JAbsent]] }
    \cup ErrorResponses
    \cup { NetworkFailure }

(***************************************************************************)
(* get_grid_point                                                          *)
(***************************************************************************)
\* grid_point_cache.get(cache_key)
CacheGet(cache, key) == IF key \in DOMAIN cache THEN cache[key] ELSE None

\* A TTL check that takes an entry of exactly 24h for valid.
CacheFresh_Inclusive(cached, t) == cached # None /\ t - cached.timestamp <= GRID_CACHE_TTL

\* A TTL check that is a second too strict.
CacheFresh_Short(cached, t) == cached # None /\ t - cached.timestamp < GRID_CACHE_TTL - 1

\* cached and time.time() - cached["timestamp"] < GRID_CACHE_TTL
CacheFresh(cached, t) == cached # None /\ t - cached.timestamp < GRID_CACHE_TTL

\* The dict built from a points payload; a missing key raises KeyError.
GridPointOf(props) ==
    IF \/ \E k \in {"gridId", "gridX", "gridY", "forecastHourly",
                     "observationStations", "relativeLocation"} : props[k] = JAbsent
       \/ props.relativeLocation.city = JAbsent
       \/ props.relativeLocation.state = JAbsent
    THEN [ok |-> FALSE, error |-> KeyError]
    ELSE [ok |-> TRUE,
          data |-> [ gridId |-> props.gridId,
                     gridX |-> props.gridX,
                     gridY |-> props.gridY,
                     forecastHourly |-> props.forecastHourly,
                     observationStations |-> props.observationStations,
                     city |-> props.relativeLocation.city,
                     state |-> props.relativeLocation.state ]]

\* response.raise_for_status(); response.json()["properties"]; data = {...}
ParsePoints(resp) ==
    IF resp.kind = "network" THEN [ok |-> FALSE, error |-> RequestError]
    ELSE IF resp.kind = "http" THEN [ok |-> FALSE, error |-> HTTPStatusError(resp)]
    ELSE GridPointOf(resp.properties)

\* A store that patches an entry it finds: the new forecast URL and the new
\* timestamp over the old data.
CacheStore_Patch(cache, key, data, t) ==
    [k \in DOMAIN cache \cup {key} |->
        IF k = key
        THEN [data |-> IF key \in DOMAIN cache
                       THEN [cache[key].data EXCEPT !.forecastHourly = data.forecastHourly]
                       ELSE data,
              timestamp |-> t]
        ELSE cache[k]]

\* A store that starts the cache afresh with the one entry.
CacheStore_Reset(cache, key, data, t) ==
    [k \in {key} |-> [data |-> data, timestamp |-> t]]

\* A store that also drops the entries that have expired.
CacheStore_Evict(cache, key, data, t) ==
    [k \in {j \in DOMAIN cache : t - cache[j].timestamp < GRID_CACHE_TTL} \cup {key} |->
        IF k = key THEN [data |-> data, timestamp |-> t] ELSE cache[k]]

\* A fetch whose result is returned but never stored.
CacheStore_Skip(cache, key, data, t) == cache

\* grid_point_cache[cache_key] = {"data": data, "timestamp": time.time()}
CacheStore(cache, key, data, t) ==
    [k \in DOMAIN cache \cup {key} |->
        IF k = key THEN [data |-> data, timestamp |-> t] ELSE cache[k]]

(***************************************************************************)
(* get_hourly_forecast                                                     *)
(***************************************************************************)
\* An upstream period; pop and rh are its optional {value} containers.
Period(start, pop, rh) ==
    [ startTime |-> JStr(start),
      temperature |-> JNum(68),
      temperatureUnit |-> JStr("F"),
      probabilityOfPrecipitation |-> pop,
      relativeHumidity |-> rh,
      windSpeed |-> JStr("5 mph"),
      windDirection |-> JStr("NW"),
      icon |-> JStr("icon"),
      shortForecast |-> JStr("Sunny"),
      isDaytime |-> JStr("true") ]

\* The period lists a forecast payload may hold: two periods with their
\* containers present, empty or missing, and a period whose container is null.
PeriodLists ==
    { <<Period("t1", JValueObj(JNum(30)), JAbsent), Period("t2", JEmptyObj, JValueObj(None))>>,
      <<Period("t1", JEmptyObj, JAbsent), Period("t2", None, JAbsent)>> }

ForecastResponses ==
    { [kind |-> "ok", periods |-> [t |-> "list", v |-> ps]] : ps \in PeriodLists }
    \cup { [kind |-> "ok", periods |-> JAbsent] }
    \cup ErrorResponses
    \cup { NetworkFailure }

\* d[key]["value"]: a missing or empty container raises as well.
GetValueRaises_Strict(container) ==
    container = None \/ container = JAbsent \/ container = JEmptyObj

\* d.get(key, {}).get("value") raises AttributeError when d[key] is null.
GetValueRaises(container) == container = None

\* d.get(key, {}).get("value")
GetValue(container) ==
    IF container = JAbsent \/ container.value = JAbsent THEN None ELSE container.value

\* One element of the list comprehension of get_hourly_forecast.
ForecastPeriod(period) ==
    [ time |-> period.startTime,
      temperature |-> period.temperature,
      temperatureUnit |-> period.temperatureUnit,
      precipitationChance |-> GetValue(period.probabilityOfPrecipitation),
      relativeHumidity |-> GetValue(period.relativeHumidity),
      windSpeed |-> period.windSpeed,
      windDirection |-> period.windDirection,
      icon |-> period.icon,
      shortForecast |-> period.shortForecast,
      isDaytime |-> period.isDaytime ]

\* Whether building the dict of one period raises.
PeriodRaises(period) ==
    \/ \E k \in {"startTime", "temperature", "temperatureUnit", "windSpeed",
                  "windDirection", "icon", "shortForecast", "isDaytime"} :
            period[k] = JAbsent
    \/ GetValueRaises(period.probabilityOfPrecipitation)
    \/ GetValueRaises(period.relativeHumidity)

\* The exception it raises: the dict's values are evaluated in order.
PeriodError(period) ==
    IF \E k \in {"startTime", "temperature", "temperatureUnit"} : period[k] = JAbsent
    THEN KeyError
    ELSE IF \/ GetValueRaises(period.probabilityOfPrecipitation)
            \/ GetValueRaises(period.relativeHumidity)
    THEN AttributeError
    ELSE KeyError

\* response.raise_for_status(); response.json()["properties"]["periods"]; [...]
ParseForecast(resp) ==
    IF resp.kind = "network" THEN [ok |-> FALSE, error |-> RequestError]
    ELSE IF resp.kind = "http" THEN [ok |-> FALSE, error |-> HTTPStatusError(resp)]
    ELSE IF resp.periods = JAbsent THEN [ok |-> FALSE, error |-> KeyError]
    ELSE LET periods == resp.periods.v
             bad == {i \in 1..Len(periods) : PeriodRaises(periods[i])}
         IN IF bad # {}
            THEN [ok |-> FALSE,
                  error |-> PeriodError(periods[CHOOSE i \in bad : \A j \in bad : i <= j])]
            ELSE [ok |-> TRUE,
                  data |-> [t |-> "list",
                            v |-> [i \in 1..Len(periods) |-> ForecastPeriod(periods[i])]]]

(***************************************************************************)
(* celsius_to_fahrenheit and get_current_conditions                        *)
(***************************************************************************)
\* Python's round(num / den) for den > 0: to the nearest integer, a tie to
\* the even one.
RoundHalfEven(num, den) ==
    LET q == num \div den
        r == num % den
    IN IF 2 * r < den THEN q
       ELSE IF 2 * r > den THEN q + 1
       ELSE IF q % 2 = 0 THEN q ELSE q + 1

\* A conversion that takes a missing reading for 0 degrees Celsius.
celsius_to_fahrenheit_NoneAsZero(celsius) ==
    IF celsius = None THEN JNum(32)
    ELSE JNum(RoundHalfEven(celsius.v * 9 + 32 * 50, 50))

\* celsius is None or JNum(n), n in tenths of a degree Celsius; the result
\* is None or JNum of whole degrees Fahrenheit: (n/10 * 9) / 5 + 32.
celsius_to_fahrenheit(celsius) ==
    IF celsius = None THEN None
    ELSE JNum(RoundHalfEven(celsius.v * 9 + 32 * 50, 50))

\* props.get(key) or default
GetOr(value, default) == IF value = JAbsent \/ value = None THEN default ELSE value

\* props.get(key)
Get(value) == IF value = JAbsent THEN None ELSE value

\* The "properties" of a latest-observation payload.
Observation(temperature, description) ==
    [ timestamp |-> JStr("obs-time"),
      temperature |-> temperature,
      textDescription |-> description,
      icon |-> JAbsent,
      relativeHumidity |-> JValueObj(JNum(55)),
      windSpeed |-> JEmptyObj,
      windDirection |-> JAbsent,
      barometricPressure |-> JValueObj(None) ]

ObservationProps ==
    { Observation(JValueObj(JNum(200)), JStr("Clear")),
      Observation(None, JStr("Clear")) }

\* What GET {stations_url} may answer; "features" is a list of stations.
StationsResponses ==
    { [kind |-> "ok", features |-> [t |-> "list", v |-> fs]] :
          fs \in { <<>>, <<[id |-> JStr("station-1")], [id |-> JStr("station-2")]>> } }
    \cup { [kind |-> "ok", features |-> JAbsent] }
    \cup ErrorResponses
    \cup { NetworkFailure }

\* What GET {station_id}/observations/latest may answer.
ObservationResponses ==
    { [kind |-> "ok", properties |-> props] : props \in ObservationProps }
    \cup { [kind |-> "ok", properties |-> JAbsent] }
    \cup ErrorResponses
    \cup { NetworkFailure }

\* stations_response.raise_for_status(); stations = ...json()["features"]
ParseStations(resp) ==
    IF resp.kind = "network" THEN [ok |-> FALSE, error |-> RequestError]
    ELSE IF resp.kind = "http" THEN [ok |-> FALSE, error |-> HTTPStatusError(resp)]
    ELSE IF resp.features = JAbsent THEN [ok |-> FALSE, error |-> KeyError]
    ELSE [ok |-> TRUE, data |-> resp.features.v]

\* The dict get_current_conditions returns for an observation's properties.
ConditionsOf(props) ==
    IF \E k \in {"temperature", "relativeHumidity", "windSpeed", "windDirection",
                 "barometricPressure"} : GetValueRaises(props[k])
    THEN [ok |-> FALSE, error |-> AttributeError]
    ELSE [ok |-> TRUE,
          data |-> [ timestamp |-> Get(props.timestamp),
                     temperature |-> celsius_to_fahrenheit(GetValue(props.temperature)),
                     temperatureUnit |-> JStr("F"),
                     description |-> GetOr(props.textDescription, JStr("N/A")),
                     icon |-> GetOr(props.icon, JStr("")),
                     humidity |-> GetValue(props.relativeHumidity),
                     windSpeed |-> GetValue(props.windSpeed),
                     windDirection |-> GetValue(props.windDirection),
                     pressure |-> GetValue(props.barometricPressure) ]]

\* obs_response.raise_for_status(); props = ...json()["properties"]; {...}
ParseObservation(resp) ==
    IF resp.kind = "network" THEN [ok |-> FALSE, error |-> RequestError]
    ELSE IF resp.kind = "http" THEN [ok |-> FALSE, error |-> HTTPStatusError(resp)]
    ELSE IF resp.properties = JAbsent THEN [ok |-> FALSE, error |-> KeyError]
    ELSE ConditionsOf(resp.properties)

\* A handler that catches httpx's errors only.
Absorb_HTTPOnly(result) ==
    IF result.ok \/ result.error.exc \notin {"HTTPStatusError", "RequestError"}
    THEN result
    ELSE [ok |-> TRUE, data |-> None]

\* try: ... except Exception as e: print(...); return None
Absorb(result) == IF result.ok THEN result ELSE [ok |-> TRUE, data |-> None]

\* One observation call per station of the list.
ObservationCalls_All(stations) == [n \in 1..Len(stations) |-> "observation"]

\* The calls get_current_conditions issues for a non-empty station list:
\* the latest observation of stations[0].
ObservationCalls(stations) == <<"observation">>

VARIABLES
    \* weather.grid_point_cache: cache key -> {"data", "timestamp"}
    grid_point_cache,
    \* time.time()
    now,
    \* the request flows, in order of arrival: a flow is suspended in the
    \* outbound call its pc names, or is done; calls are the outbound calls
    \* it has sent, arrived the time.time() of its arrival, cached,
    \* grid_point and hourly_forecast its locals (gone when it is done)
    requests

vars == <<grid_point_cache, now, requests>>

\* The process has started: the cache is empty, no request has arrived.
Init ==
    /\ grid_point_cache = [k \in {} |-> None]
    /\ now = 0
    /\ requests = <<>>

(***************************************************************************)
(* The clock.  It advances in turn by a second less than the TTL and by a  *)
(* second: 0, TTL-1, TTL, 2*TTL-1, ..., so that entries are met at ages    *)
(* just below the TTL, of the TTL exactly and above it.                    *)
(***************************************************************************)
TickStep(t) == IF t % GRID_CACHE_TTL = 0 THEN GRID_CACHE_TTL - 1 ELSE 1

\* The number of steps that take the clock from 0 to t.
Elapsed(t) == 2 * (t \div GRID_CACHE_TTL) + (IF t % GRID_CACHE_TTL = 0 THEN 0 ELSE 1)

Tick ==
    /\ Elapsed(now) < MaxTicks
    /\ now' = now + TickStep(now)
    /\ UNCHANGED <<grid_point_cache, requests>>

(***************************************************************************)
(* get_forecast, one action per stretch between two suspension points.     *)
(***************************************************************************)
\* The answer to a request that fails the Query constraints: the handler
\* is not entered.
Rejected(lat, lon) ==
    [ lat |-> lat, lon |-> lon, arrived |-> now, pc |-> "done",
      cached |-> None, calls |-> <<>>, grid_point |-> None,
      hourly_forecast |-> None,
      response |-> [status_code |-> VALIDATION_STATUS, detail |-> <<"validation: ", "lat/lon">>] ]

\* get_forecast up to its first outbound call: get_grid_point returns the
\* cached data and get_hourly_forecast sends its request, or get_grid_point
\* sends the points request.
Entered(lat, lon) ==
    LET cached == CacheGet(grid_point_cache, cache_key(lat, lon))
        hit == CacheFresh(cached, now)
    IN [ lat |-> lat, lon |-> lon, arrived |-> now,
         pc |-> IF hit THEN "forecast" ELSE "points",
         cached |-> cached,
         calls |-> IF hit THEN <<"forecast">> ELSE <<"points">>,
         grid_point |-> IF hit THEN cached.data ELSE None,
         hourly_forecast |-> None,
         response |-> None ]

\* A handler that sends a failed points call once more before it gives up.
Fail_Retry(r, e) ==
    IF r.pc = "points" /\ Len(r.calls) < 2
    THEN [r EXCEPT !.calls = Append(@, "points")]
    ELSE [r EXCEPT !.pc = "done", !.cached = None, !.grid_point = None,
                   !.hourly_forecast = None, !.response = HTTPException(e)]

\* except ...: raise HTTPException(...)
Fail(r, e) ==
    [r EXCEPT !.pc = "done", !.cached = None, !.grid_point = None,
              !.hourly_forecast = None, !.response = HTTPException(e)]

\* return {"location": ..., "currentConditions": ..., "hourlyForecast": ..., "updated": ...}
Respond(r, current_conditions) ==
    [r EXCEPT !.pc = "done", !.cached = None, !.grid_point = None,
              !.hourly_forecast = None,
              !.response =
                  [ status_code |-> 200,
                    content |->
                        [ location |-> [ city |-> r.grid_point.city,
                                         state |-> r.grid_point.state,
                                         gridId |-> r.grid_point.gridId,
                                         gridX |-> r.grid_point.gridX,
                                         gridY |-> r.grid_point.gridY ],
                          currentConditions |-> current_conditions,
                          hourlyForecast |-> r.hourly_forecast,
                          updated |-> now ] ]]

\* An inbound GET /weather/forecast?lat=..&lon=..
Request(lat, lon) ==
    /\ Len(requests) < MaxRequests
    /\ requests' = Append(requests,
                          IF Valid(lat, lon) THEN Entered(lat, lon) ELSE Rejected(lat, lon))
    /\ UNCHANGED <<grid_point_cache, now>>

\* The points call of flow i returns: get_grid_point stores and returns the
\* data, and get_hourly_forecast sends its request; or the call raises.
PointsResponse(i, resp) ==
    LET r == requests[i]
        res == ParsePoints(resp)
    IN /\ r.pc = "points"
       /\ IF res.ok
          THEN /\ grid_point_cache' =
                     CacheStore(grid_point_cache, cache_key(r.lat, r.lon), res.data, now)
               /\ requests' = [requests EXCEPT ![i] =
                     [r EXCEPT !.grid_point = res.data,
                               !.pc = "forecast",
                               !.calls = Append(@, "forecast")]]
          ELSE /\ requests' = [requests EXCEPT ![i] = Fail(r, res.error)]
               /\ UNCHANGED grid_point_cache
       /\ UNCHANGED now

\* The hourly forecast call of flow i returns: get_current_conditions sends
\* the stations request; or the call raises.
ForecastResponse(i, resp) ==
    LET r == requests[i]
        res == ParseForecast(resp)
    IN /\ r.pc = "forecast"
       /\ requests' = [requests EXCEPT ![i] =
             IF res.ok
             THEN [r EXCEPT !.hourly_forecast = res.data,
                            !.pc = "stations",
                            !.calls = Append(@, "stations")]
             ELSE Fail(r, res.error)]
       /\ UNCHANGED <<grid_point_cache, now>>

\* The stations call of flow i returns: the latest observation of the first
\* station is requested; with no station or an exception the conditions are
\* None and get_forecast returns.
StationsResponse(i, resp) ==
    LET r == requests[i]
        res == ParseStations(resp)
        \* station_id = stations[0]["id"]
        proceed == res.ok /\ res.data # <<>> /\ res.data[1].id # JAbsent
        \* if not stations: return None
        end == Absorb(IF res.ok /\ res.data = <<>>
                      THEN [ok |-> TRUE, data |-> None]
                      ELSE IF res.ok THEN [ok |-> FALSE, error |-> KeyError] ELSE res)
    IN /\ r.pc = "stations"
       /\ requests' = [requests EXCEPT ![i] =
             IF proceed
             THEN [r EXCEPT !.pc = "observation",
                            !.calls = @ \o ObservationCalls(res.data)]
             ELSE IF end.ok THEN Respond(r, end.data) ELSE Fail(r, end.error)]
       /\ UNCHANGED <<grid_point_cache, now>>

\* The latest-observation call of flow i returns, and get_forecast with it.
ObservationResponse(i, resp) ==
    LET r == requests[i]
        end == Absorb(ParseObservation(resp))
    IN /\ r.pc = "observation"
       /\ requests' = [requests EXCEPT ![i] =
             IF end.ok THEN Respond(r, end.data) ELSE Fail(r, end.error)]
       /\ UNCHANGED <<grid_point_cache, now>>

Next ==
    \/ Tick
    \/ \E c \in Coords : Request(c[1], c[2])
    \/ \E i \in DOMAIN requests :
          \E resp \in PointsResponses(requests[i].lat, requests[i].lon) :
              PointsResponse(i, resp)
    \/ \E i \in DOMAIN requests : \E resp \in ForecastResponses : ForecastResponse(i, resp)
    \/ \E i \in DOMAIN requests : \E resp \in StationsResponses : StationsResponse(i, resp)
    \/ \E i \in DOMAIN requests : \E resp \in ObservationResponses : ObservationResponse(i, resp)

Spec == Init /\ [][Next]_vars

(***************************************************************************)
(* Properties.                                                             *)
(***************************************************************************)
\* The request that arrives in a step that is an arrival.
Arrival == Len(requests') = Len(requests) + 1
Arrived == requests'[Len(requests')]
InRange(lat, lon) ==
    /\ -90 * Micro <= lat /\ lat <= 90 * Micro
    /\ -180 * Micro <= lon /\ lon <= 180 * Micro
\* How often a flow has called an endpoint.
Calls(r, endpoint) == Cardinality({n \in DOMAIN r.calls : r.calls[n] = endpoint})

\* C1: a call of get_grid_point that finds an entry for its key less than 24h
\* old returns that entry's data, sends no points request (the flow goes on
\* to the hourly forecast call) and leaves the cache as it was.
C1_CacheHit ==
    [][ Arrival /\ InRange(Arrived.lat, Arrived.lon) =>
          LET key == cache_key(Arrived.lat, Arrived.lon)
          IN (key \in DOMAIN grid_point_cache
                /\ now - grid_point_cache[key].timestamp < 24 * 60 * 60)
             => /\ Arrived.grid_point = grid_point_cache[key].data
                /\ Arrived.calls = <<"forecast">>
                /\ grid_point_cache' = grid_point_cache ]_vars

\* A flow served from an entry one second short of 24h old.
C1_Witness ==
    \E i \in DOMAIN requests :
        /\ requests[i].pc = "forecast"
        /\ requests[i].calls = <<"forecast">>
        /\ requests[i].cached # None
        /\ requests[i].arrived - requests[i].cached.timestamp = 24 * 60 * 60 - 1
        /\ requests[i].grid_point = requests[i].cached.data

\* C2 as stated: of two calls for one coordinate made within 24h of each
\* other that both return a grid point, the later sends no points request,
\* and the two send at most one between them.
C2_OneFetchPerDay ==
    \A i, j \in DOMAIN requests :
        ( /\ i < j
          /\ requests[i].lat = requests[j].lat /\ requests[i].lon = requests[j].lon
          /\ InRange(requests[i].lat, requests[i].lon)
          /\ requests[j].arrived - requests[i].arrived < 24 * 60 * 60
          /\ Calls(requests[i], "forecast") > 0
          /\ Calls(requests[j], "forecast") > 0 )
        => /\ Calls(requests[j], "points") = 0
           /\ Calls(requests[i], "points") + Calls(requests[j], "points") <= 1

\* C2 amended: a call made after an earlier call for the same coordinate has
\* returned the grid point of its own points fetch, and less than 24h after
\* that earlier call, is served from the cache and sends no points request:
\* the two calls rest on the one fetch of the earlier.
C2_SecondCallCached ==
    [][ Arrival /\ InRange(Arrived.lat, Arrived.lon) =>
          \A i \in DOMAIN requests :
              ( /\ requests[i].lat = Arrived.lat /\ requests[i].lon = Arrived.lon
                /\ Len(requests[i].calls) >= 2
                /\ requests[i].calls[1] = "points"
                /\ requests[i].calls[2] = "forecast"
                /\ now - requests[i].arrived < 24 * 60 * 60 )
              => /\ Arrived.calls = <<"forecast">>
                 /\ Arrived.grid_point # None
                 /\ Calls(requests[i], "points") + Calls(Arrived, "points") = 1 ]_vars

\* Two calls for one coordinate a second less than 24h apart: the first
\* fetched, the second was served from the cache.
C2_Witness ==
    \E i, j \in DOMAIN requests :
        /\ i < j
        /\ requests[i].lat = requests[j].lat /\ requests[i].lon = requests[j].lon
        /\ Len(requests[i].calls) >= 2 /\ requests[i].calls[1] = "points"
        /\ requests[j].calls = <<"forecast">>
        /\ requests[j].arrived - requests[i].arrived = 24 * 60 * 60 - 1

\* The flow's points call returns in this step.
PointsReturn(i) == requests[i].pc = "points" /\ requests'[i].pc # "points"
\* The flow found an entry for its key that was 24h old or older.
FoundExpired(r) == r.cached # None /\ r.arrived - r.cached.timestamp >= 24 * 60 * 60
\* A points response that get_grid_point can use.
Usable(resp) == resp.kind = "ok" /\ resp.properties.relativeLocation # JAbsent

\* C3 as stated: a call that finds an entry 24h old or older sends exactly
\* one points request, and when that request returns the entry of the key is
\* the new grid point with the new timestamp.
C3_ExpiredReplaced ==
    [][ \A i \in DOMAIN requests :
          PointsReturn(i) /\ FoundExpired(requests[i]) =>
              LET key == cache_key(requests[i].lat, requests[i].lon)
              IN /\ Calls(requests'[i], "points") = 1
                 /\ key \in DOMAIN grid_point_cache'
                 /\ grid_point_cache'[key].timestamp = now
                 /\ grid_point_cache'[key].data = requests'[i].grid_point ]_vars

\* C3 amended: a call that finds an entry 24h old or older (24h exactly
\* included) sends exactly one points request; if that request succeeds the
\* entry of the key is replaced by the new grid point with the new
\* timestamp, and if it fails the call fails and the cache stays as it was.
C3_ExpiredRefetched ==
    [][ /\ ( Arrival /\ InRange(Arrived.lat, Arrived.lon) =>
                LET key == cache_key(Arrived.lat, Arrived.lon)
                IN (key \in DOMAIN grid_point_cache
                      /\ now - grid_point_cache[key].timestamp >= 24 * 60 * 60)
                   => Arrived.calls = <<"points">> /\ Arrived.grid_point = None )
        /\ \A i \in DOMAIN requests :
              \A resp \in PointsResponses(requests[i].lat, requests[i].lon) :
                  PointsResponse(i, resp) /\ FoundExpired(requests[i]) =>
                      LET key == cache_key(requests[i].lat, requests[i].lon)
                      IN /\ Calls(requests'[i], "points") = 1
                         /\ IF Usable(resp)
                            THEN /\ grid_point_cache'[key].timestamp = now
                                 /\ grid_point_cache'[key].data = requests'[i].grid_point
                                 /\ requests'[i].grid_point.gridId = resp.properties.gridId
                                 /\ grid_point_cache'[key].timestamp > requests[i].cached.timestamp
                            ELSE /\ grid_point_cache' = grid_point_cache
                                 /\ requests'[i].pc = "done"
                                 /\ requests'[i].response.status_code # 200 ]_vars

\* A flow that found an entry of exactly 24h and has replaced it.
C3_Witness ==
    \E i \in DOMAIN requests :
        LET key == cache_key(requests[i].lat, requests[i].lon)
        IN /\ requests[i].pc = "forecast"
           /\ requests[i].cached # None
           /\ requests[i].arrived - requests[i].cached.timestamp = 24 * 60 * 60
           /\ requests[i].calls = <<"points", "forecast">>
           /\ grid_point_cache[key].data = requests[i].grid_point
           /\ grid_point_cache[key].timestamp >= requests[i].arrived

\* C4: a request whose lat is outside [-90, 90] or whose lon is outside
\* [-180, 180] is rejected by the validation as it arrives; no outbound call
\* is ever sent for it and its arrival leaves the cache as it was.
C4_InvalidNoCall ==
    [][ /\ \A i \in DOMAIN requests' :
              ~InRange(requests'[i].lat, requests'[i].lon) =>
                  /\ requests'[i].calls = <<>>
                  /\ requests'[i].pc = "done"
                  /\ requests'[i].response # None
                  /\ requests'[i].response.status_code # 200
                  /\ requests'[i].response.detail[1] = "validation: "
        /\ Arrival /\ ~InRange(Arrived.lat, Arrived.lon) =>
              grid_point_cache' = grid_point_cache ]_vars

\* A request with a longitude out of range was rejected while the cache
\* held an entry.
C4_Witness ==
    \E i \in DOMAIN requests :
        /\ requests[i].lon < -180 * Micro
        /\ requests[i].calls = <<>>
        /\ requests[i].pc = "done"
        /\ DOMAIN grid_point_cache # {}
        /\ \A k \in DOMAIN grid_point_cache : grid_point_cache[k].timestamp < requests[i].arrived

StationsFail(resp) ==
    \/ resp.kind # "ok"
    \/ resp.features = JAbsent
    \/ resp.features.v = <<>>
\* An observation answer get_current_conditions cannot use.
ObservationFails(resp) ==
    \/ resp.kind # "ok"
    \/ resp.properties = JAbsent
    \/ resp.properties.temperature = None
\* The request of flow i has succeeded without current conditions.
DegradedSuccess(r) ==
    /\ r.pc = "done"
    /\ r.response.status_code = 200
    /\ r.response.content.currentConditions = None
    /\ r.response.content.hourlyForecast # None
    /\ r.response.content.hourlyForecast.t = "list"

\* C6: once the grid point and the hourly forecast are there, a failure of
\* the stations call or of the observation call (no station, HTTP error,
\* network error, malformed payload) gives currentConditions = null in a
\* successful response with a non-null hourlyForecast; no step of
\* get_current_conditions ends the request in an error.
C6_ConditionsDegrade ==
    [][ \A i \in DOMAIN requests :
          /\ \A resp \in StationsResponses :
                StationsResponse(i, resp) /\ StationsFail(resp) => DegradedSuccess(requests'[i])
          /\ \A resp \in ObservationResponses :
                ObservationResponse(i, resp) /\ ObservationFails(resp) =>
                    DegradedSuccess(requests'[i])
          /\ (requests[i].pc \in {"stations", "observation"} /\ requests'[i].pc = "done") =>
                /\ requests'[i].response.status_code = 200
                /\ requests'[i].response.content.hourlyForecast # None ]_vars

\* A request that succeeded without conditions after its observation call.
C6_Witness ==
    \E i \in DOMAIN requests :
        /\ requests[i].pc = "done"
        /\ Len(requests[i].calls) = 4
        /\ requests[i].response.status_code = 200
        /\ requests[i].response.content.currentConditions = None
        /\ Len(requests[i].response.content.hourlyForecast.v) = 2

\* C7: a non-2xx answer with status S and body B to the points call or to
\* the hourly forecast call ends the request with status S and a detail
\* that carries B.
C7_UpstreamStatus ==
    [][ \A i \in DOMAIN requests : \A resp \in ErrorResponses :
          PointsResponse(i, resp) \/ ForecastResponse(i, resp) =>
              /\ requests'[i].pc = "done"
              /\ requests'[i].response.status_code = resp.status_code
              /\ requests'[i].response.status_code # 200
              /\ requests'[i].response.detail = <<"Weather API error: ", resp.text>>
              /\ requests'[i].calls = requests[i].calls ]_vars

\* The hourly forecast call of a request was answered 503 with a body.
C7_Witness ==
    \E i \in DOMAIN requests :
        /\ requests[i].pc = "done"
        /\ requests[i].calls = <<"points", "forecast">>
        /\ requests[i].response.status_code = 503
        /\ requests[i].response.detail[2] = "maintenance"

\* C8: a network failure of the points call or of the hourly forecast call
\* ends the request with status 503, whichever call it was.
C8_NetworkUnavailable ==
    [][ \A i \in DOMAIN requests :
          PointsResponse(i, NetworkFailure) \/ ForecastResponse(i, NetworkFailure) =>
              /\ requests'[i].pc = "done"
              /\ requests'[i].response.status_code = 503
              /\ requests'[i].response.detail[1] = "Weather API unavailable: " ]_vars

\* One request lost its points call to the network, another its hourly
\* forecast call.
C8_Witness ==
    \E i, j \in DOMAIN requests :
        /\ requests[i].pc = "done" /\ requests[j].pc = "done"
        /\ requests[i].calls = <<"points">>
        /\ Len(requests[j].calls) >= 1
        /\ requests[j].calls[Len(requests[j].calls)] = "forecast"
        /\ requests[i].response.status_code = 503
        /\ requests[j].response.status_code = 503
        /\ requests[i].response.detail[1] = "Weather API unavailable: "
        /\ requests[j].response.detail[1] = "Weather API unavailable: "

\* A 2xx forecast answer get_hourly_forecast cannot use.
ForecastMalformed(resp) ==
    /\ resp.kind = "ok"
    /\ \/ resp.periods = JAbsent
       \/ \E n \in DOMAIN resp.periods.v :
              \/ resp.periods.v[n].probabilityOfPrecipitation = None
              \/ resp.periods.v[n].relativeHumidity = None

C10_AtMostThreeCalls == \A i \in DOMAIN requests : Len(requests[i].calls) <= 3

\* C10 amended: a request performs at most four outbound calls: points,
\* hourly forecast, stations list, latest observation.
C10_AtMostFourCalls == \A i \in DOMAIN requests : Len(requests[i].calls) <= 4

\* A request that has sent its four calls.
C10_Witness ==
    \E i \in DOMAIN requests :
        requests[i].calls = <<"points", "forecast", "stations", "observation">>

(***************************************************************************)
(* The two orderings of the fetches that follow the grid point.  Flow 1 is *)
(* get_forecast as written: the current conditions are fetched after the   *)
(* hourly forecast has returned, and not at all when it raised.  Flow 2 is *)
(* the variant that starts both fetches at once and joins them before it   *)
(* assembles the response.  Both are given the same upstream answers.      *)
(***************************************************************************)
\* The answers of the upstream to the three calls that follow the points call.
UpstreamAnswers ==
    { [forecast |-> f, stations |-> s, observation |-> o] :
          f \in ForecastResponses, s \in StationsResponses, o \in ObservationResponses }

OrderCoord == <<40712900, -74005900>>
OrderGridPoint == GridPointOf(PointsProps(OrderCoord[1], OrderCoord[2], 1)).data

\* get_forecast after get_grid_point has fetched and stored the grid point:
\* suspended in the hourly forecast call.
SeqFlow(u) ==
    [ lat |-> OrderCoord[1], lon |-> OrderCoord[2], arrived |-> 0, pc |-> "forecast",
      cached |-> None, calls |-> <<"points", "forecast">>,
      grid_point |-> OrderGridPoint, hourly_forecast |-> None, response |-> None,
      upstream |-> u ]

\* The variant at the same point: both fetches started, suspended in their join.
ConFlow(u) ==
    [ lat |-> OrderCoord[1], lon |-> OrderCoord[2], arrived |-> 0, pc |-> "gather",
      cached |-> None, calls |-> <<"points", "forecast", "stations">>,
      grid_point |-> OrderGridPoint, hourly_forecast |-> None, response |-> None,
      upstream |-> u,
      forecast_task |-> [pc |-> "forecast", result |-> None],
      conditions_task |-> [pc |-> "stations", result |-> None] ]

OrderInit ==
    /\ now = 0
    /\ grid_point_cache =
          CacheStore([k \in {} |-> None], cache_key(OrderCoord[1], OrderCoord[2]),
                     OrderGridPoint, 0)
    /\ \E u \in UpstreamAnswers : requests = <<SeqFlow(u), ConFlow(u)>>

\* A task that has ended with a result of get_hourly_forecast or of
\* get_current_conditions: returned, or raised.
Ended(result) == [pc |-> IF result.ok THEN "returned" ELSE "raised", result |-> result]

SeqForecast == ForecastResponse(1, requests[1].upstream.forecast)
SeqStations == StationsResponse(1, requests[1].upstream.stations)
SeqObservation == ObservationResponse(1, requests[1].upstream.observation)

\* The variant's get_hourly_forecast task: its call returns.
ConForecast ==
    LET r == requests[2]
    IN /\ r.pc = "gather"
       /\ r.forecast_task.pc = "forecast"
       /\ requests' = [requests EXCEPT ![2].forecast_task =
                           Ended(ParseForecast(r.upstream.forecast))]
       /\ UNCHANGED <<grid_point_cache, now>>

\* The variant's get_current_conditions task: its stations call returns.
ConStations ==
    LET r == requests[2]
        res == ParseStations(r.upstream.stations)
        proceed == res.ok /\ res.data # <<>> /\ res.data[1].id # JAbsent
        end == Absorb(IF res.ok /\ res.data = <<>>
                      THEN [ok |-> TRUE, data |-> None]
                      ELSE IF res.ok THEN [ok |-> FALSE, error |-> KeyError] ELSE res)
    IN /\ r.pc = "gather"
       /\ r.conditions_task.pc = "stations"
       /\ requests' = [requests EXCEPT ![2] =
             IF proceed
             THEN [r EXCEPT !.conditions_task.pc = "observation",
                            !.calls = @ \o ObservationCalls(res.data)]
             ELSE [r EXCEPT !.conditions_task = Ended(end)]]
       /\ UNCHANGED <<grid_point_cache, now>>

\* The variant's get_current_conditions task: its observation call returns.
ConObservation ==
    LET r == requests[2]
    IN /\ r.pc = "gather"
       /\ r.conditions_task.pc = "observation"
       /\ requests' = [requests EXCEPT ![2].conditions_task =
                           Ended(Absorb(ParseObservation(r.upstream.observation)))]
       /\ UNCHANGED <<grid_point_cache, now>>

\* The variant's join: it raises what a task has raised, or, once both
\* tasks have returned, the response is assembled.
ConJoin ==
    LET r == requests[2]
        raised == {t \in {r.forecast_task, r.conditions_task} : t.pc = "raised"}
    IN /\ r.pc = "gather"
       /\ IF raised # {}
          THEN \E t \in raised :
                  requests' = [requests EXCEPT ![2] = Fail(r, t.result.error)]
          ELSE /\ r.forecast_task.pc = "returned"
               /\ r.conditions_task.pc = "returned"
               /\ requests' = [requests EXCEPT ![2] =
                     Respond([r EXCEPT !.hourly_forecast = r.forecast_task.result.data],
                             r.conditions_task.result.data)]
       /\ UNCHANGED <<grid_point_cache, now>>

OrderNext ==
    \/ SeqForecast
    \/ SeqStations
    \/ SeqObservation
    \/ ConForecast
    \/ ConStations
    \/ ConObservation
    \/ ConJoin

SpecOrder == OrderInit /\ [][OrderNext]_vars

\* What the caller sees of a response: the status, and the detail of an
\* error or the content of a success but for "updated", the time of assembly.
Observable(response) ==
    IF response.status_code = 200
    THEN [ status_code |-> 200,
           location |-> response.content.location,
           currentConditions |-> response.content.currentConditions,
           hourlyForecast |-> response.content.hourlyForecast ]
    ELSE [ status_code |-> response.status_code, detail |-> response.detail ]

\* C11: for every combination of upstream answers, fetching the current
\* conditions after the hourly forecast (and not at all once the forecast
\* fetch has failed) and fetching the two concurrently give the caller the
\* same status and the same body.
C11_OrderEquivalent ==
    (requests[1].pc = "done" /\ requests[2].pc = "done") =>
        /\ requests[1].response # None
        /\ requests[2].response # None
        /\ Observable(requests[1].response) = Observable(requests[2].response)

\* The forecast fetch failed: the sequential flow has sent two calls and
\* skipped the conditions, the concurrent one has sent all four, and both
\* have answered 503.
C11_Witness ==
    /\ requests[1].pc = "done" /\ requests[2].pc = "done"
    /\ requests[1].calls = <<"points", "forecast">>
    /\ Len(requests[2].calls) = 4
    /\ requests[2].conditions_task.pc = "returned"
    /\ requests[2].conditions_task.result.data # None
    /\ requests[1].response.status_code = 503
    /\ requests[2].response.status_code = 503

(***************************************************************************)
(* The cache key over a wider set of coordinates: requests whose points    *)
(* call is answered, then requests that look the stored entries up.        *)
(***************************************************************************)
\* Latitudes and longitudes in millionths of a degree; none lies halfway
\* between two 4-decimal values, where the binary value of the float decides.
KeyLats == {40712900, 40712904, 40712960, 40713040, 40, -40, 60, -60}
KeyLons == {-74005900, -74005901, -74005960}
KeyCoords == KeyLats \X KeyLons

KeyNext ==
    \/ \E c \in KeyCoords : Request(c[1], c[2])
    \/ \E i \in 1..Len(requests) :
          \E resp \in PointsResponses(requests[i].lat, requests[i].lon) :
             PointsResponse(i, resp)

SpecKey == Init /\ [][KeyNext]_vars

\* The coordinates whose points response is stored under key k.
StoredFor(k) ==
    <<grid_point_cache[k].data.gridId.v[2], grid_point_cache[k].data.gridId.v[3]>>

\* The arriving request r is served from the entry under key k.
Hits(r, k) == r.pc = "forecast" /\ r.calls = <<"forecast">> /\ r.grid_point = grid_point_cache[k].data

\* x cut after its fourth decimal, and x rounded to its fourth decimal (in
\* ten-thousandths of a degree, as a magnitude).
Trunc4(x) == (IF x < 0 THEN -1 ELSE 1) * (Abs(x) \div 100)
Nearest4(x) == CHOOSE m \in {Abs(x) \div 100, Abs(x) \div 100 + 1} : 2 * Abs(Abs(x) - 100 * m) < 100

ExampleSameKey == cache_key(40712900, -74005900) = cache_key(40712904, -74005901)

\* C12 as stated: a request is served from the entry stored for other
\* coordinates exactly when the 4-decimal truncations of the two latitudes
\* and of the two longitudes agree, and the two example coordinates share a key.
C12_TruncationKey ==
    /\ ExampleSameKey
    /\ [][\A c \in KeyCoords : Request(c[1], c[2]) =>
            \A k \in DOMAIN grid_point_cache :
               Hits(requests'[Len(requests')], k) <=>
                  /\ Trunc4(StoredFor(k)[1]) = Trunc4(c[1])
                  /\ Trunc4(StoredFor(k)[2]) = Trunc4(c[2])]_vars

\* C12, amended: a request is served from the entry stored for other
\* coordinates exactly when latitude and longitude, each rounded to 4
\* decimal places, agree in magnitude and in sign (-0.0000 and 0.0000 are
\* different keys), and the two example coordinates share a key.
C12_RoundedKey ==
    /\ ExampleSameKey
    /\ [][\A c \in KeyCoords : Request(c[1], c[2]) =>
            \A k \in DOMAIN grid_point_cache :
               Hits(requests'[Len(requests')], k) <=>
                  \A n \in 1..2 :
                     /\ Nearest4(StoredFor(k)[n]) = Nearest4(c[n])
                     /\ (StoredFor(k)[n] < 0) = (c[n] < 0)]_vars

\* The entry stored for (40.712900, -74.005900) serves (40.712904, -74.005901).
C12_Witness ==
    /\ Len(requests) = 2
    /\ requests[1].lat = 40712900 /\ requests[1].lon = -74005900
    /\ requests[1].calls = <<"points", "forecast">>
    /\ requests[2].lat = 40712904 /\ requests[2].lon = -74005901
    /\ requests[2].calls = <<"forecast">>
    /\ requests[2].grid_point = requests[1].grid_point

(***************************************************************************)
(* get_hourly_forecast over the shapes of the two optional containers: one *)
(* request whose forecast payload holds one or two periods.                *)
(***************************************************************************)
\* A container: missing, empty, holding a null, holding a number, or null.
Containers ==
    {JAbsent, JEmptyObj, JValueObj(None), JValueObj(JNum(0)), JValueObj(JNum(30)), None}

PeriodCases ==
    { <<Period("t1", pop, rh)>> : pop \in Containers, rh \in Containers }
    \cup { <<Period("t1", pop1, rh1), Period("t2", pop2, rh2)>> :
               pop1 \in Containers, rh1 \in Containers,
               pop2 \in Containers, rh2 \in Containers }

PeriodCaseResponses ==
    { [kind |-> "ok", periods |-> [t |-> "list", v |-> ps]] : ps \in PeriodCases }

PeriodNext ==
    \/ requests = <<>> /\ Request(OrderCoord[1], OrderCoord[2])
    \/ \E i \in 1..Len(requests) :
          \E resp \in PointsResponses(requests[i].lat, requests[i].lon) :
             PointsResponse(i, resp)
    \/ \E i \in 1..Len(requests) :
          \E resp \in PeriodCaseResponses : ForecastResponse(i, resp)

SpecPeriods == Init /\ [][PeriodNext]_vars

\* The container is missing or a dict (not a JSON null).
OptionalShape(container) == container # None

\* The output value agrees with the container: its nested value when it
\* has one, None when the value or the container is missing.
AgreesWith(out, container) ==
    IF container = JAbsent \/ container = JEmptyObj
    THEN out = None
    ELSE out = container.value

\* C13: when every optional container of a forecast payload is present,
\* empty or missing, the hourly forecast fetch does not fail, and every
\* period it produces carries the nested value of each container, or None
\* where the value or the container is missing.
C13_OptionalContainers ==
    [][\A i \in 1..Len(requests) : \A resp \in PeriodCaseResponses :
          ( /\ ForecastResponse(i, resp)
            /\ \A n \in 1..Len(resp.periods.v) :
                  /\ OptionalShape(resp.periods.v[n].probabilityOfPrecipitation)
                  /\ OptionalShape(resp.periods.v[n].relativeHumidity) )
          => /\ requests'[i].pc = "stations"
             /\ requests'[i].response = None
             /\ Len(requests'[i].hourly_forecast.v) = Len(resp.periods.v)
             /\ \A n \in 1..Len(resp.periods.v) :
                   /\ AgreesWith(requests'[i].hourly_forecast.v[n].precipitationChance,
                                 resp.periods.v[n].probabilityOfPrecipitation)
                   /\ AgreesWith(requests'[i].hourly_forecast.v[n].relativeHumidity,
                                 resp.periods.v[n].relativeHumidity)]_vars

\* A forecast of two periods was produced: the first with a chance of 0
\* and no humidity, the second with neither.
C13_Witness ==
    /\ Len(requests) = 1
    /\ requests[1].pc = "stations"
    /\ Len(requests[1].hourly_forecast.v) = 2
    /\ requests[1].hourly_forecast.v[1].precipitationChance = JNum(0)
    /\ requests[1].hourly_forecast.v[1].relativeHumidity = None
    /\ requests[1].hourly_forecast.v[2].precipitationChance = None
    /\ requests[1].hourly_forecast.v[2].relativeHumidity = None

(***************************************************************************)
(* celsius_to_fahrenheit in get_current_conditions over a range of         *)
(* readings: one request whose observation carries the temperature.        *)
(***************************************************************************)
\* The readings run from MaxCold tenths of a degree below zero to MaxWarm
\* tenths above.
MaxCold == 400
MaxWarm == 1000
CelsiusTenths == (0 - MaxCold)..MaxWarm

\* The "temperature" of an observation: missing, empty, holding a null, or
\* holding a reading.
TemperatureContainers ==
    {JAbsent, JEmptyObj, JValueObj(None)} \cup {JValueObj(JNum(n)) : n \in CelsiusTenths}

CelsiusResponses ==
    { [kind |-> "ok", properties |-> Observation(t, JStr("Clear"))] :
          t \in TemperatureContainers }

CelsiusNext ==
    \/ requests = <<>> /\ Request(OrderCoord[1], OrderCoord[2])
    \/ \E i \in 1..Len(requests) :
          \E resp \in PointsResponses(requests[i].lat, requests[i].lon) :
             PointsResponse(i, resp)
    \/ \E i \in 1..Len(requests) :
          \E resp \in ForecastResponses : ForecastResponse(i, resp)
    \/ \E i \in 1..Len(requests) :
          \E resp \in StationsResponses : StationsResponse(i, resp)
    \/ \E i \in 1..Len(requests) :
          \E resp \in CelsiusResponses : ObservationResponse(i, resp)

SpecCelsius == Init /\ [][CelsiusNext]_vars

\* The source temperature is missing: no container, no value, or a null value.
NoReading(container) == container \in {JAbsent, JEmptyObj, JValueObj(None)}

\* f is a whole number of degrees Fahrenheit nearest to n tenths of a
\* degree Celsius: |f - (n/10 * 9/5 + 32)| <= 1/2.
NearestFahrenheit(f, n) == 2 * Abs(50 * f - (9 * n + 32 * 50)) <= 50

\* C14: celsius_to_fahrenheit gives None for None, and for a reading c the
\* integer nearest to c*9/5+32 (0 -> 32, 20 -> 68, 100 -> 212); an
\* observation without a temperature yields conditions whose temperature
\* is None, not 0, and whose other fields are returned.
C14_Conversion ==
    /\ celsius_to_fahrenheit(None) = None
    /\ celsius_to_fahrenheit(JNum(0)) = JNum(32)
    /\ celsius_to_fahrenheit(JNum(200)) = JNum(68)
    /\ celsius_to_fahrenheit(JNum(1000)) = JNum(212)
    /\ [][\A i \in 1..Len(requests) : \A resp \in CelsiusResponses :
            ObservationResponse(i, resp) =>
               LET t == resp.properties.temperature
                   response == requests'[i].response
               IN /\ response.status_code = 200
                  /\ response.content.currentConditions # None
                  /\ response.content.currentConditions.temperatureUnit = JStr("F")
                  /\ response.content.currentConditions.description = JStr("Clear")
                  /\ response.content.currentConditions.humidity = JNum(55)
                  /\ IF NoReading(t)
                     THEN response.content.currentConditions.temperature = None
                     ELSE /\ response.content.currentConditions.temperature.t = "num"
                          /\ NearestFahrenheit(
                                response.content.currentConditions.temperature.v,
                                t.value.v)]_vars

\* Conditions were returned without a temperature.
C14_Witness ==
    /\ Len(requests) = 1
    /\ requests[1].pc = "done"
    /\ requests[1].response.status_code = 200
    /\ requests[1].response.content.currentConditions # None
    /\ requests[1].response.content.currentConditions.temperature = None
    /\ requests[1].response.content.currentConditions.humidity = JNum(55)

(***************************************************************************)
(* The order of the outbound calls of one request.                         *)
(***************************************************************************)
CallSequence == <<"points", "forecast", "stations", "observation">>
IsPrefix(s, t) == Len(s) <= Len(t) /\ \A n \in 1..Len(s) : s[n] = t[n]

\* The calls of a flow are a prefix of the sequence, with or without the
\* points call, and a flow that has sent the forecast call holds a grid point.
CallsInOrder ==
    \A i \in DOMAIN requests :
        /\ IsPrefix(requests[i].calls, CallSequence)
             \/ IsPrefix(requests[i].calls, Tail(CallSequence))
        /\ \A endpoint \in {"points", "forecast", "stations", "observation"} :
              Calls(requests[i], endpoint) <= 1
        /\ (requests[i].pc # "done" /\ Calls(requests[i], "forecast") = 1)
              => requests[i].grid_point # None
        /\ (Len(requests[i].calls) > 0 /\ requests[i].calls[1] = "forecast"
              /\ requests[i].pc # "done")
              => requests[i].cached # None

\* A step adds at most one call to a flow; a points or forecast call that
\* fails ends the flow with the calls it has sent; a flow that is done
\* sends nothing more.
CallsStop ==
    \A i \in DOMAIN requests :
        /\ IsPrefix(requests[i].calls, requests'[i].calls)
        /\ Len(requests'[i].calls) <= Len(requests[i].calls) + 1
        /\ \A resp \in PointsResponses(requests[i].lat, requests[i].lon) :
              (PointsResponse(i, resp) /\ ~Usable(resp))
                 => requests'[i].pc = "done" /\ requests'[i].calls = requests[i].calls
        /\ \A resp \in ForecastResponses :
              (ForecastResponse(i, resp) /\ ~ParseForecast(resp).ok)
                 => requests'[i].pc = "done" /\ requests'[i].calls = requests[i].calls
        /\ requests[i].pc = "done" => requests'[i] = requests[i]

\* C15: the outbound calls of a request form a prefix of points (left out
\* on a cache hit), hourly forecast, stations, latest observation, each sent
\* at most once; the forecast call is sent only once the grid point is
\* resolved, and after a failed points or forecast call the request sends
\* no further call.
C15_CallOrder == []CallsInOrder /\ [][CallsStop]_vars

\* One request has sent all four calls; another, served from the cache, has
\* sent the forecast call only, which failed.
C15_Witness ==
    \E i, j \in DOMAIN requests :
        /\ requests[i].calls = CallSequence
        /\ requests[i].pc = "done"
        /\ requests[j].calls = <<"forecast">>
        /\ requests[j].pc = "done"
        /\ requests[j].response.status_code # 200

(***************************************************************************)
(* The cache under interleaved requests.                                   *)
(***************************************************************************)
GridPointFields ==
    {"gridId", "gridX", "gridY", "forecastHourly", "observationStations", "city", "state"}

\* data is the grid point of the v-th points response for (lat, lon), whole.
WholeFrom(data, lat, lon, v) ==
    /\ DOMAIN data = GridPointFields
    /\ \A f \in GridPointFields : data[f] = JStr(<<f, lat, lon, v>>)

\* A request for (lat, lon) has had its points call answered.
Fetched(lat, lon) ==
    \E i \in DOMAIN requests :
        /\ requests[i].lat = lat /\ requests[i].lon = lon
        /\ Len(requests[i].calls) >= 2
        /\ requests[i].calls[1] = "points"

\* C16: under every interleaving, each cache entry is a {data, timestamp}
\* pair whose data is the whole grid point of one successful points
\* response, for a coordinate that maps to the entry's key and that a
\* request has fetched, and whose timestamp is a time of the clock so far;
\* and each flow past get_grid_point holds such a whole grid point for a
\* coordinate of its own key: its own when it fetched.
C16_EntriesWhole ==
    /\ \A k \in DOMAIN grid_point_cache :
          /\ DOMAIN grid_point_cache[k] = {"data", "timestamp"}
          /\ grid_point_cache[k].timestamp \in 0..now
          /\ \E c \in Coords : \E v \in 1..MaxVersion :
                /\ InRange(c[1], c[2])
                /\ cache_key(c[1], c[2]) = k
                /\ Fetched(c[1], c[2])
                /\ WholeFrom(grid_point_cache[k].data, c[1], c[2], v)
    /\ \A i \in DOMAIN requests :
          requests[i].pc \in {"forecast", "stations", "observation"} =>
             \E c \in Coords : \E v \in 1..MaxVersion :
                /\ cache_key(c[1], c[2]) = cache_key(requests[i].lat, requests[i].lon)
                /\ requests[i].calls[1] = "points"
                      => (c[1] = requests[i].lat /\ c[2] = requests[i].lon)
                /\ WholeFrom(requests[i].grid_point, c[1], c[2], v)

\* Two requests for one key both missed and both fetched; the entry, not
\* yet expired, is the answer to the second, written over the answer to
\* the first, and each flow holds the whole answer to its own fetch.
C16_Witness ==
    \E i, j \in DOMAIN requests :
        /\ i # j
        /\ cache_key(requests[i].lat, requests[i].lon)
              = cache_key(requests[j].lat, requests[j].lon)
        /\ requests[i].pc = "forecast" /\ requests[i].calls = <<"points", "forecast">>
        /\ requests[j].pc = "forecast" /\ requests[j].calls = <<"points", "forecast">>
        /\ requests[i].grid_point # requests[j].grid_point
        /\ requests[i].lat # requests[j].lat
        /\ grid_point_cache[cache_key(requests[j].lat, requests[j].lon)].data
              = requests[j].grid_point
        /\ now = 0

(***************************************************************************)
(* What writes the cache.                                                  *)
(***************************************************************************)
\* The step leaves every entry but the one under key as it was.
OnlyAt(key) ==
    /\ DOMAIN grid_point_cache \subseteq DOMAIN grid_point_cache'
    /\ DOMAIN grid_point_cache' \subseteq DOMAIN grid_point_cache \cup {key}
    /\ \A k \in DOMAIN grid_point_cache \ {key} :
          grid_point_cache'[k] = grid_point_cache[k]

\* C17: the cache changes only in a step in which a points call returns a
\* usable payload, and then only under the key of that request's
\* coordinates, where the fetched data and the time are stored; a points
\* call that fails, a forecast, stations or observation call that returns,
\* whatever it returns, and an arriving request leave the cache as it was.
C17_CacheFrame ==
    [][ /\ grid_point_cache' # grid_point_cache =>
              \E i \in DOMAIN requests :
                 \E resp \in PointsResponses(requests[i].lat, requests[i].lon) :
                    /\ Usable(resp)
                    /\ PointsResponse(i, resp)
                    /\ OnlyAt(cache_key(requests[i].lat, requests[i].lon))
                    /\ cache_key(requests[i].lat, requests[i].lon) \in DOMAIN grid_point_cache'
                    /\ grid_point_cache'[cache_key(requests[i].lat, requests[i].lon)]
                          = [data |-> requests'[i].grid_point, timestamp |-> now]
        /\ \A i \in DOMAIN requests :
              /\ \A resp \in PointsResponses(requests[i].lat, requests[i].lon) :
                    PointsResponse(i, resp) =>
                       /\ OnlyAt(cache_key(requests[i].lat, requests[i].lon))
                       /\ ~Usable(resp) => grid_point_cache' = grid_point_cache
              /\ \A resp \in ForecastResponses :
                    ForecastResponse(i, resp) => grid_point_cache' = grid_point_cache
              /\ \A resp \in StationsResponses :
                    StationsResponse(i, resp) => grid_point_cache' = grid_point_cache
              /\ \A resp \in ObservationResponses :
                    ObservationResponse(i, resp) => grid_point_cache' = grid_point_cache
        /\ Arrival => grid_point_cache' = grid_point_cache ]_vars

\* A request found its entry expired and its points call failed: the entry
\* is still the expired one, beside an entry under another key, and a later
\* request for the same key has sent a points call again.
C17_Witness ==
    \E i, j \in DOMAIN requests :
        /\ i < j
        /\ requests[i].pc = "done"
        /\ requests[i].calls = <<"points">>
        /\ requests[i].response.status_code # 200
        /\ cache_key(requests[i].lat, requests[i].lon) \in DOMAIN grid_point_cache
        /\ now - grid_point_cache[cache_key(requests[i].lat, requests[i].lon)].timestamp
              >= GRID_CACHE_TTL
        /\ cache_key(requests[j].lat, requests[j].lon)
              = cache_key(requests[i].lat, requests[i].lon)
        /\ Len(requests[j].calls) >= 1
        /\ requests[j].calls[1] = "points"

\* C18: a key that is in the cache stays in the cache in every later
\* state, and, the clock never running backwards, the timestamp stored
\* under a key never decreases.
C18_NeverEvicted ==
    [][ /\ now' >= now
        /\ DOMAIN grid_point_cache \subseteq DOMAIN grid_point_cache'
        /\ \A k \in DOMAIN grid_point_cache :
              grid_point_cache'[k].timestamp >= grid_point_cache[k].timestamp ]_vars

\* An entry that expired is still in the cache after an entry under
\* another key was stored at a later time.
C18_Witness ==
    \E k1, k2 \in DOMAIN grid_point_cache :
        /\ k1 # k2
        /\ now - grid_point_cache[k1].timestamp >= GRID_CACHE_TTL
        /\ grid_point_cache[k2].timestamp > grid_point_cache[k1].timestamp
        /\ grid_point_cache[k2].timestamp - grid_point_cache[k1].timestamp >= GRID_CACHE_TTL

====
